---- MODULE Spec2Model ----
(***************************************************************************)
(* A model of three components of the autocxx engine:                      *)
(*   - OverloadTracker   (engine/src/conversion/overload_tracker.rs)       *)
(*   - TypeConverter     (engine/src/conversion/type_converter.rs)         *)
(*   - TypeDatabase      (engine/src/type_database.rs)                     *)
(* Identifiers are sequences of characters; a character is a one-element   *)
(* string, except for the non-ASCII numeric character SuperTwo.            *)
(***************************************************************************)
EXTENDS Integers, Sequences, FiniteSets, TLC

VARIABLES
    \* OverloadTracker (overload_tracker.rs:67-71)
    offset_by_name,
    offset_by_type_and_name,
    expected_next_by_name,
    \* the process has panicked inside a tracker call
    ot_aborted,
    \* the last tracker call: its arguments, the locals of next_offset and
    \* the MethodOverload it returned
    ot_ret,
    \* history: how many lookups of <<scope, prefix>> were recognised so far
    ot_recognised,
    \* TypeConverter (type_converter.rs:30-33)
    types_found,
    typedefs,
    \* the process has aborted inside a converter call
    tc_aborted,
    \* the last convert call: its arguments and what it returned
    tc_ret,
    \* history: the type names passed to push so far
    tc_pushed,
    \* TypeDatabase (type_database.rs:25-29)
    nested_types,
    pod_requests,
    allowlist,
    \* the process has panicked inside type_to_cpp
    td_aborted,
    \* the last type_to_cpp call: its argument and what it returned
    td_ret,
    \* history: the latest replacement passed to note_nested_type for each
    \* original, and the items passed to add_to_allowlist so far
    td_noted,
    td_added

ot_vars == <<offset_by_name, offset_by_type_and_name, expected_next_by_name,
             ot_aborted, ot_ret, ot_recognised>>

tc_vars == <<types_found, typedefs, tc_aborted, tc_ret, tc_pushed>>

td_vars == <<nested_types, pod_requests, allowlist, td_aborted, td_ret,
             td_noted, td_added>>

vars == <<ot_vars, tc_vars, td_vars>>

-----------------------------------------------------------------------------
(* Bounds of the model *)

\* lookups recognised per prefix before the model stops recognising more
MaxCount == 3

-----------------------------------------------------------------------------
(* Maps (HashMap): functions whose DOMAIN is the set of keys present *)

EmptyMap == [k \in {} |-> 0]

MapGet(m, k, default) == IF k \in DOMAIN m THEN m[k] ELSE default

MapPut(m, k, v) == [x \in DOMAIN m \cup {k} |-> IF x = k THEN v ELSE m[x]]

\* HashMap::entry(k).or_insert(v): inserts v only when k is absent
MapOrInsert(m, k, v) == IF k \in DOMAIN m THEN m ELSE MapPut(m, k, v)

Bind(v, Body(_)) == Body(v)

\* Option<T>
None == <<>>
Some(x) == <<x>>

-----------------------------------------------------------------------------
(* Characters and strings *)

\* U+00B2 SUPERSCRIPT TWO: char::is_numeric is true, it is no ASCII digit,
\* and it takes two bytes in UTF-8.
SuperTwo == "U+00B2"

DigitChars == <<"0", "1", "2", "3", "4", "5", "6", "7", "8", "9">>

AsciiDigits == {DigitChars[i] : i \in 1..10}

DigitVal(ch) == (CHOOSE i \in 1..10 : DigitChars[i] = ch) - 1

\* char::is_numeric: the Unicode general categories Nd, Nl, No
IsNumeric(ch) == ch \in AsciiDigits \cup {SuperTwo}

Utf8Len(ch) == IF ch = SuperTwo THEN 2 ELSE 1

\* str::len: the length in bytes
RECURSIVE ByteLen(_)
ByteLen(s) == IF s = <<>> THEN 0 ELSE Utf8Len(Head(s)) + ByteLen(Tail(s))

\* the number of characters before byte index b, or -1 when b is not a
\* character boundary (slicing there panics)
CharIndexOfByte(s, b) ==
    LET hits == {i \in 0..Len(s) : ByteLen(SubSeq(s, 1, i)) = b}
    IN  IF hits = {} THEN -1 ELSE CHOOSE i \in hits : TRUE

\* usize::MAX on a 64-bit target, as decimal digits
UsizeMaxDigits == <<"1","8","4","4","6","7","4","4","0","7",
                    "3","7","0","9","5","5","1","6","1","5">>

RECURSIVE StripLeadingZeros(_)
StripLeadingZeros(d) ==
    IF d # <<>> /\ Head(d) = "0" THEN StripLeadingZeros(Tail(d)) ELSE d

\* a > b for two digit strings of the same length
RECURSIVE DigitsGreater(_, _)
DigitsGreater(a, b) ==
    IF a = <<>> THEN FALSE
    ELSE IF DigitVal(Head(a)) # DigitVal(Head(b))
         THEN DigitVal(Head(a)) > DigitVal(Head(b))
         ELSE DigitsGreater(Tail(a), Tail(b))

RECURSIVE DecValue(_)
DecValue(d) ==
    IF d = <<>> THEN 0
    ELSE 10 * DecValue(SubSeq(d, 1, Len(d) - 1)) + DigitVal(d[Len(d)])

\* str::parse::<usize>: Err on a character that is no ASCII digit
\* (InvalidDigit) and on a value above usize::MAX (PosOverflow)
ParseUsize(d) ==
    IF \E i \in 1..Len(d) : d[i] \notin AsciiDigits
    THEN [ok |-> FALSE, value |-> 0]
    ELSE LET s == StripLeadingZeros(d)
         IN  IF Len(s) > Len(UsizeMaxDigits)
                \/ (Len(s) = Len(UsizeMaxDigits) /\ DigitsGreater(s, UsizeMaxDigits))
             THEN [ok |-> FALSE, value |-> 0]
             ELSE [ok |-> TRUE, value |-> DecValue(s)]

\* Display of an unsigned integer: decimal, no leading zeros
RECURSIVE ToDecimal(_)
ToDecimal(n) ==
    IF n < 10 THEN <<DigitChars[n + 1]>>
    ELSE ToDecimal(n \div 10) \o <<DigitChars[(n % 10) + 1]>>

-----------------------------------------------------------------------------
(* overload_tracker.rs *)

MethodOverload(cpp_method_name, rust_method_name) ==
    [cpp_method_name |-> cpp_method_name, rust_method_name |-> rust_method_name]

\* the number of trailing characters for which is_numeric holds: the value
\* of pos at the first non-numeric character of the reversed iteration
RECURSIVE TrailingNumeric(_)
TrailingNumeric(s) ==
    IF s = <<>> \/ ~IsNumeric(s[Len(s)]) THEN 0
    ELSE 1 + TrailingNumeric(SubSeq(s, 1, Len(s) - 1))

SplitPanic == [panic |-> TRUE, prefix |-> <<>>, counter |-> 0]

split_name(found_name) ==
    Bind(TrailingNumeric(found_name), LAMBDA pos :
    IF pos = Len(found_name)
    THEN SplitPanic    \* "Identifier was entirely numeric"
    ELSE Bind(CharIndexOfByte(found_name, ByteLen(found_name) - pos), LAMBDA at :
         IF at = -1
         THEN SplitPanic    \* the slice index is not a char boundary
         ELSE Bind(SubSeq(found_name, at + 1, Len(found_name)), LAMBDA suffix :
              Bind(ParseUsize(suffix), LAMBDA parsed :
              LET prefix == SubSeq(found_name, 1, at)
              IN  IF suffix = <<>>
                  THEN [panic |-> FALSE, prefix |-> prefix, counter |-> 0]
                  ELSE IF ~parsed.ok
                       THEN SplitPanic    \* unwrap of Err
                       ELSE [panic |-> FALSE, prefix |-> prefix,
                             counter |-> parsed.value]))))

\* the tracker as one value
OverloadTracker ==
    [offset_by_name |-> offset_by_name,
     offset_by_type_and_name |-> offset_by_type_and_name,
     expected_next_by_name |-> expected_next_by_name]

\* the offsets table a lookup selects (before it is created, if it is new)
Registry(self, type_name) ==
    IF type_name = None THEN self.offset_by_name
    ELSE MapGet(self.offset_by_type_and_name, type_name[1], EmptyMap)

NoOverload == MethodOverload(<<>>, <<>>)

\* what next_offset leaves behind and returns: outcome is "ok", or "panic"
\* when the call does not return
Returned(self, sp, expected_next_suffix, result) ==
    [outcome |-> "ok", self |-> self, fn_name |-> sp.prefix, counter |-> sp.counter,
     expected_next_suffix |-> expected_next_suffix, result |-> result]

Panicked(self) ==
    [outcome |-> "panic", self |-> self, fn_name |-> <<>>, counter |-> 0,
     expected_next_suffix |-> 0, result |-> NoOverload]

\* a variant of not_an_overload that resynchronises the expected counter
not_an_overload_resync(self, expected, sp, found_name) ==
    Returned([self EXCEPT !.expected_next_by_name =
                              MapPut(expected, sp.prefix, sp.counter + 1)],
             sp, expected[sp.prefix], MethodOverload(found_name, found_name))

\* the branch counter != *expected_next_suffix; expected is
\* expected_next_by_name after entry(fn_name).or_insert(0)
not_an_overload(self, expected, sp, found_name) ==
    Returned([self EXCEPT !.expected_next_by_name = expected], sp,
             expected[sp.prefix], MethodOverload(found_name, found_name))

\* a variant of effective_name that always appends the count
effective_name_always_numbered(fn_name, effective_count) ==
    MethodOverload(fn_name, fn_name \o ToDecimal(effective_count))

\* the MethodOverload built from effective_count
effective_name(fn_name, effective_count) ==
    MethodOverload(fn_name,
                   IF effective_count = 0 THEN fn_name
                   ELSE fn_name \o ToDecimal(effective_count))

\* the branch counter == *expected_next_suffix with the offsets table and
\* the next expected counter given; the variants below are made of it
overload_sequence_with(self, expected, sp, type_name, registry, next_expected) ==
    LET fn_name == sp.prefix
        counter == sp.counter
        offset == registry[fn_name]
        after == [offset_by_name |->
                      IF type_name = None THEN registry ELSE self.offset_by_name,
                  offset_by_type_and_name |->
                      IF type_name = None THEN self.offset_by_type_and_name
                      ELSE MapPut(self.offset_by_type_and_name, type_name[1], registry),
                  expected_next_by_name |->
                      MapPut(expected, fn_name, next_expected)]
    IN  IF counter < offset
        THEN Panicked(after)
        ELSE Returned(after, sp, expected[fn_name],
                      effective_name(fn_name, counter - offset))

\* a variant that keeps one expected counter per scope: a lookup in an
\* owning type leaves the shared counter alone
part_of_overload_sequence_per_scope(self, expected, sp, type_name) ==
    overload_sequence_with(self, expected, sp, type_name,
        MapOrInsert(Registry(self, type_name), sp.prefix, sp.counter),
        IF type_name = None THEN expected[sp.prefix] + 1 ELSE expected[sp.prefix])

\* a variant that moves the baseline to the counter of every lookup
part_of_overload_sequence_rebasing(self, expected, sp, type_name) ==
    overload_sequence_with(self, expected, sp, type_name,
        MapPut(Registry(self, type_name), sp.prefix, sp.counter),
        expected[sp.prefix] + 1)

\* a variant that records the counter after the first lookup as baseline
part_of_overload_sequence_one_based(self, expected, sp, type_name) ==
    overload_sequence_with(self, expected, sp, type_name,
        MapOrInsert(Registry(self, type_name), sp.prefix, sp.counter + 1),
        expected[sp.prefix] + 1)

\* the branch counter == *expected_next_suffix
part_of_overload_sequence(self, expected, sp, type_name) ==
    Bind(MapOrInsert(Registry(self, type_name), sp.prefix, sp.counter),
         LAMBDA registry :
    LET fn_name == sp.prefix
        counter == sp.counter
        offset == registry[fn_name]
        after == [offset_by_name |->
                      IF type_name = None THEN registry ELSE self.offset_by_name,
                  offset_by_type_and_name |->
                      IF type_name = None THEN self.offset_by_type_and_name
                      ELSE MapPut(self.offset_by_type_and_name, type_name[1], registry),
                  expected_next_by_name |->
                      MapPut(expected, fn_name, expected[fn_name] + 1)]
    IN  IF counter < offset
        THEN Panicked(after)    \* usize subtraction overflow (debug build)
        ELSE Returned(after, sp, expected[fn_name],
                      effective_name(fn_name, counter - offset)))

next_offset(self, type_name, found_name) ==
    Bind(split_name(found_name), LAMBDA sp :
    IF sp.panic
    THEN Panicked(self)
    ELSE Bind(MapOrInsert(self.expected_next_by_name, sp.prefix, 0), LAMBDA expected :
         IF sp.counter # expected[sp.prefix]
         THEN not_an_overload(self, expected, sp, found_name)
         ELSE part_of_overload_sequence(self, expected, sp, type_name)))

-----------------------------------------------------------------------------
(* Type expressions (syn::Type) *)

\* PathArguments::None and PathArguments::AngleBracketed
NoArguments == [kind |-> "None", args |-> <<>>]
AngleBracketed(args) == [kind |-> "AngleBracketed", args |-> args]

\* PathArguments::is_empty
ArgumentsIsEmpty(arguments) == arguments.kind = "None" \/ arguments.args = <<>>

PathSegment(ident, arguments) == [ident |-> ident, arguments |-> arguments]

\* Type::Path, Type::Reference, Type::Ptr and, for every other shape, the
\* unit type Type::Tuple
TypePath(segments) == [kind |-> "Path", segments |-> segments]
TypeReference(mutability, elem) ==
    [kind |-> "Reference", mutability |-> mutability, elem |-> elem]
TypePtr(mutability, elem) ==
    [kind |-> "Ptr", mutability |-> mutability, elem |-> elem]
TypeTuple == [kind |-> "Tuple"]

\* a GenericArgument that is no type
Lifetime == [kind |-> "Lifetime"]

\* a path of identifiers without arguments
PlainPath(idents) ==
    TypePath([i \in 1..Len(idents) |-> PathSegment(idents[i], NoArguments)])

\* a path whose last segment carries generic arguments
GenericPath(idents, args) ==
    TypePath([i \in 1..Len(idents) |->
                  PathSegment(idents[i],
                              IF i = Len(idents) THEN AngleBracketed(args)
                              ELSE NoArguments)])

Idents(typ) == [i \in 1..Len(typ.segments) |-> typ.segments[i].ident]

\* Result<T, ConvertError>, and the outcomes that end the process
Ok(v) == [tag |-> "Ok", val |-> v]
ComplexTypedefTarget(name) == [tag |-> "Err", val |-> name]
Fatal(what) == [tag |-> "Fatal", val |-> what]

-----------------------------------------------------------------------------
(* types.rs, known_types.rs, typedef_analyzer.rs *)

\* TypeName::from_type_path: the identifiers of the path, without the
\* leading root marker
from_type_path(typ) ==
    IF Idents(typ)[1] = "root" THEN Tail(Idents(typ)) ELSE Idents(typ)

\* TypeName::to_type_path: the absolute path of the name
to_type_path(tn) == PlainPath(<<"root">> \o tn)

\* TypeName::to_cpp_name: the segments joined by ::
RECURSIVE to_cpp_name(_)
to_cpp_name(tn) ==
    IF Len(tn) <= 1 THEN tn
    ELSE <<Head(tn), "::">> \o to_cpp_name(Tail(tn))

\* the built-in and standard types, each with the path that replaces it
KnownTypes ==
    [tn \in {<<"i32">>, <<"std", "unique_ptr">>, <<"UniquePtr">>, <<"rust", "Str">>} |->
        IF tn = <<"std", "unique_ptr">> THEN <<"UniquePtr">> ELSE tn]

\* the borrowed string-view marker type
StrMarker == <<"rust", "Str">>

is_known_type(ty) == ty \in DOMAIN KnownTypes

\* None, or Some(path) without arguments
known_type_substitute_path(typ) ==
    IF from_type_path(typ) \in DOMAIN KnownTypes
    THEN Some(PlainPath(KnownTypes[from_type_path(typ)]))
    ELSE None

should_dereference_in_cpp(typ) == from_type_path(typ) = StrMarker

\* TypedefTarget
SimpleAlias(tn) == [kind |-> "NoArguments", tn |-> tn]
Complex == [kind |-> "Complex", tn |-> <<>>]

analyze_typedef_target(ty) ==
    IF ty.kind = "Path"
       /\ ArgumentsIsEmpty(ty.segments[Len(ty.segments)].arguments)
    THEN SimpleAlias(from_type_path(ty))
    ELSE Complex

-----------------------------------------------------------------------------
(* type_converter.rs *)

\* the converter as one value
TypeConverter == [types_found |-> types_found, typedefs |-> typedefs]

\* Vec::contains; the vector types_found is only ever read through
\* contains, and is held as the set of its elements
Contains(vec, x) == x \in vec

\* resolve_typedef; visited holds the names already on the call stack: a
\* name met again recurses without end, until the stack overflows
RECURSIVE resolve_typedef_from(_, _, _)
resolve_typedef_from(self, tn, visited) ==
    IF tn \notin DOMAIN self.typedefs
    THEN Ok(None)
    ELSE IF self.typedefs[tn].kind = "NoArguments"
    THEN Bind(self.typedefs[tn].tn, LAMBDA original_tn :
         IF original_tn \in visited \cup {tn}
         THEN Fatal("stack overflow")
         ELSE Bind(resolve_typedef_from(self, original_tn, visited \cup {tn}),
                   LAMBDA further :
              IF further.tag # "Ok" THEN further
              ELSE IF further.val = None THEN Ok(Some(original_tn))
              ELSE further))
    ELSE ComplexTypedefTarget(to_cpp_name(tn))

\* a variant of resolve_typedef that stops at the first alias target
resolve_typedef_first_target(self, tn) ==
    IF tn \notin DOMAIN self.typedefs THEN Ok(None)
    ELSE IF self.typedefs[tn].kind = "NoArguments"
    THEN Ok(Some(self.typedefs[tn].tn))
    ELSE ComplexTypedefTarget(to_cpp_name(tn))

\* a variant of resolve_typedef that leaves a usage of a Complex typedef
\* as it is
resolve_typedef_complex_kept(self, tn) ==
    IF resolve_typedef_from(self, tn, {}).tag = "Err"
    THEN Ok(None)
    ELSE resolve_typedef_from(self, tn, {})

resolve_typedef(self, tn) == resolve_typedef_from(self, tn, {})

\* the path with the namespace prepended when the name is unknown
\* (the else branch of convert_type_path)
qualify(self, typ, ns) ==
    IF ~Contains(self.types_found, from_type_path(typ))
       /\ ~is_known_type(from_type_path(typ))
    THEN TypePath(PlainPath(<<"root">> \o ns).segments \o typ.segments)
    ELSE typ

\* the scan for path arguments: Fatal when a segment that is not the last
\* carries some, else the arguments of the last segment (None if empty)
find_last_seg_args(typ) ==
    IF \E i \in 1..(Len(typ.segments) - 1) :
           ~ArgumentsIsEmpty(typ.segments[i].arguments)
    THEN Fatal("path arguments on a non-final segment")
    ELSE IF ArgumentsIsEmpty(typ.segments[Len(typ.segments)].arguments)
    THEN Ok(None)
    ELSE Ok(Some(typ.segments[Len(typ.segments)].arguments))

\* the path with last_seg_args put on its last segment
put_back_args(typ, last_seg_args) ==
    IF last_seg_args = None THEN typ
    ELSE TypePath([typ.segments EXCEPT
                       ![Len(typ.segments)].arguments = last_seg_args[1]])

\* the second half of convert_type_path: typedef resolution, known type
\* substitution and the path arguments put back
substitute(self, typ) ==
    Bind(find_last_seg_args(typ), LAMBDA last_seg_args :
    IF last_seg_args.tag # "Ok" THEN last_seg_args
    ELSE Bind(resolve_typedef(self, from_type_path(typ)), LAMBDA resolved :
         IF resolved.tag # "Ok" THEN resolved
         ELSE Bind(IF resolved.val = None THEN typ
                   ELSE to_type_path(resolved.val[1]), LAMBDA target :
              Ok(put_back_args(IF known_type_substitute_path(target) = None
                               THEN target
                               ELSE known_type_substitute_path(target)[1],
                               last_seg_args.val)))))

RECURSIVE convert_type(_, _, _)
RECURSIVE convert_punctuated(_, _, _)
RECURSIVE convert_segments(_, _, _)

\* a variant of convert_type_path that qualifies every relative path
convert_type_path_always_qualified(self, typ, ns) ==
    IF typ.segments[1].ident = "root"
    THEN Bind(convert_segments(self, typ.segments, ns), LAMBDA segments :
         IF segments.tag # "Ok" THEN segments
         ELSE substitute(self, TypePath(segments.val)))
    ELSE substitute(self, TypePath(PlainPath(<<"root">> \o ns).segments
                                       \o typ.segments))

\* a variant of convert_type_path that qualifies absolute paths as well
convert_type_path_requalified(self, typ, ns) ==
    substitute(self, qualify(self, typ, ns))

convert_type_path(self, typ, ns) ==
    IF typ.segments[1].ident = "root"
    THEN Bind(convert_segments(self, typ.segments, ns), LAMBDA segments :
         IF segments.tag # "Ok" THEN segments
         ELSE substitute(self, TypePath(segments.val)))
    ELSE substitute(self, qualify(self, typ, ns))

\* the map over the segments of an absolute path, ended by the first
\* argument list that fails to convert
convert_segments(self, segments, ns) ==
    IF segments = <<>> THEN Ok(<<>>)
    ELSE Bind(IF Head(segments).arguments.kind = "AngleBracketed"
              THEN convert_punctuated(self, Head(segments).arguments.args, ns)
              ELSE Ok(<<>>), LAMBDA args :
         IF args.tag # "Ok" THEN args
         ELSE Bind(convert_segments(self, Tail(segments), ns), LAMBDA rest :
              IF rest.tag # "Ok" THEN rest
              ELSE Ok(<<PathSegment(Head(segments).ident,
                                    IF Head(segments).arguments.kind = "AngleBracketed"
                                    THEN AngleBracketed(args.val)
                                    ELSE Head(segments).arguments)>>
                      \o rest.val)))

convert_punctuated(self, pun, ns) ==
    IF pun = <<>> THEN Ok(<<>>)
    ELSE Bind(IF Head(pun).kind = "Lifetime" THEN Ok(Head(pun))
              ELSE convert_type(self, Head(pun), ns), LAMBDA arg :
         IF arg.tag # "Ok" THEN arg
         ELSE Bind(convert_punctuated(self, Tail(pun), ns), LAMBDA rest :
              IF rest.tag # "Ok" THEN rest
              ELSE Ok(<<arg.val>> \o rest.val)))

\* convert_boxed_type and convert_ptr_to_reference: a reference with the
\* mutability given, to the converted element
convert_ptr_to_reference_immutable(self, ptr, ns) ==
    Bind(convert_type(self, ptr.elem, ns), LAMBDA elem :
    IF elem.tag # "Ok" THEN elem
    ELSE Ok(TypeReference(FALSE, elem.val)))

convert_ptr_to_reference(self, ptr, ns) ==
    Bind(convert_type(self, ptr.elem, ns), LAMBDA elem :
    IF elem.tag # "Ok" THEN elem
    ELSE Ok(TypeReference(ptr.mutability, elem.val)))

convert_type(self, ty, ns) ==
    IF ty.kind = "Path"
    THEN Bind(convert_type_path(self, ty, ns), LAMBDA newp :
         IF newp.tag # "Ok" THEN newp
         ELSE IF should_dereference_in_cpp(newp.val)
         THEN Ok(TypeReference(FALSE, PlainPath(<<"str">>)))
         ELSE newp)
    ELSE IF ty.kind = "Reference"
    THEN Bind(convert_type(self, ty.elem, ns), LAMBDA elem :
         IF elem.tag # "Ok" THEN elem
         ELSE Ok(TypeReference(ty.mutability, elem.val)))
    ELSE IF ty.kind = "Ptr"
    THEN convert_ptr_to_reference(self, ty, ns)
    ELSE Ok(ty)

-----------------------------------------------------------------------------
(* type_database.rs: the shapes type_to_cpp renders *)

\* type_to_cpp reaches panic!("Unsupported type") on ty or inside it
RECURSIVE type_to_cpp_panics(_)
type_to_cpp_panics(ty) ==
    IF ty.kind = "Path"
    THEN LET arguments == ty.segments[Len(ty.segments)].arguments
         IN  /\ arguments.kind = "AngleBracketed"
             /\ \E i \in 1..Len(arguments.args) :
                    /\ arguments.args[i].kind # "Lifetime"
                    /\ type_to_cpp_panics(arguments.args[i])
    ELSE IF ty.kind = "Reference"
    THEN type_to_cpp_panics(ty.elem)
    ELSE TRUE


\* the database as one value
TypeDatabase ==
    [nested_types |-> nested_types, pod_requests |-> pod_requests,
     allowlist |-> allowlist]

get_effective_type(self, original) ==
    IF original \in DOMAIN self.nested_types
    THEN Some(self.nested_types[original])
    ELSE None

get_pod_requests(self) == self.pod_requests

allowlist_is_empty(self) == self.allowlist = {}

is_on_allowlist(self, tn) == to_cpp_name(tn) \in self.allowlist

RECURSIVE type_to_cpp(_, _)
\* the map over the generic arguments and the join with ", ": a type
\* argument is rendered, any other argument gives the empty string
RECURSIVE render_arguments(_, _)
render_arguments(self, args) ==
    IF args = <<>> THEN Ok(<<>>)
    ELSE Bind(IF Head(args).kind = "Lifetime" THEN Ok(<<>>)
              ELSE type_to_cpp(self, Head(args)), LAMBDA gat :
         IF gat.tag # "Ok" THEN gat
         ELSE Bind(render_arguments(self, Tail(args)), LAMBDA rest :
              IF rest.tag # "Ok" THEN rest
              ELSE Ok(gat.val \o (IF Tail(args) = <<>> THEN <<>> ELSE <<", ">>)
                              \o rest.val)))

\* the text as a sequence of tokens, or Fatal for panic!("Unsupported type")
type_to_cpp(self, ty) ==
    IF ty.kind = "Path"
    THEN Bind(to_cpp_name(IF get_effective_type(self, from_type_path(ty)) = None
                          THEN from_type_path(ty)
                          ELSE get_effective_type(self, from_type_path(ty))[1]),
              LAMBDA root :
         IF ty.segments[Len(ty.segments)].arguments.kind = "AngleBracketed"
         THEN Bind(render_arguments(self,
                       ty.segments[Len(ty.segments)].arguments.args),
                   LAMBDA suffix :
              IF suffix.tag # "Ok" THEN suffix
              ELSE Ok(root \o <<"<">> \o suffix.val \o <<">">>))
         ELSE Ok(root))
    ELSE IF ty.kind = "Reference"
    THEN Bind(type_to_cpp(self, ty.elem), LAMBDA elem :
         IF elem.tag # "Ok" THEN elem
         ELSE Ok((IF ty.mutability THEN <<>> ELSE <<"const ">>)
                 \o elem.val \o <<"&">>))
    ELSE Fatal("Unsupported type")

-----------------------------------------------------------------------------
(* The calls the converter receives *)

Namespaces == {<<>>, <<"n">>}

\* the names passed to push
PushedNames == {<<"T">>, <<"A">>}

\* the typedefs declared: aliases A -> B -> C -> T, aliases of themselves
\* and of each other, an alias of a Complex typedef, and the Complex
\* typedefs D (a pointer, a generic type) and E
TypedefDecls ==
    {<<<<"A">>, PlainPath(<<"root", "B">>)>>,
     <<<<"A">>, PlainPath(<<"root", "A">>)>>,
     <<<<"B">>, PlainPath(<<"root", "C">>)>>,
     <<<<"B">>, PlainPath(<<"root", "A">>)>>,
     <<<<"B">>, PlainPath(<<"root", "D">>)>>,
     <<<<"D">>, TypePtr(TRUE, PlainPath(<<"root", "T">>))>>,
     <<<<"D">>, GenericPath(<<"root", "G">>, <<PlainPath(<<"root", "T">>)>>)>>,
     <<<<"E">>, TypePtr(FALSE, PlainPath(<<"i32">>))>>,
     <<<<"C">>, PlainPath(<<"root", "T">>)>>}

\* paths without arguments
PlainTypes ==
    {PlainPath(p) : p \in {<<"T">>, <<"root", "T">>, <<"A">>, <<"root", "A">>,
                           <<"root", "B">>, <<"root", "D">>, <<"i32">>,
                           <<"root", "rust", "Str">>}}

\* paths with generic arguments on the last segment, relative and absolute
GenericTypes ==
    {GenericPath(<<"G">>, <<a>>) :
         a \in {PlainPath(<<"T">>), PlainPath(<<"root", "E">>),
                TypePtr(TRUE, PlainPath(<<"T">>))}}
    \cup {GenericPath(<<"root", "G">>, <<a>>) :
              a \in {PlainPath(<<"T">>), PlainPath(<<"root", "A">>),
                     TypePtr(TRUE, PlainPath(<<"T">>)), TypeTuple}}
    \cup {GenericPath(<<"root", "D">>, <<a>>) :
              a \in {PlainPath(<<"T">>), PlainPath(<<"root", "E">>),
                     PlainPath(<<"root", "A">>)}}
    \cup {GenericPath(<<"root", "A">>, <<PlainPath(<<"T">>)>>),
          GenericPath(<<"root", "std", "unique_ptr">>, <<PlainPath(<<"T">>)>>),
          GenericPath(<<"root", "G">>, <<Lifetime, PlainPath(<<"T">>)>>),
          GenericPath(<<"root", "G">>, <<>>)}

\* pointers and references
IndirectTypes ==
    {TypePtr(m, PlainPath(<<"T">>)) : m \in BOOLEAN}
    \cup {TypeReference(TRUE, PlainPath(<<"T">>)),
          TypePtr(FALSE, PlainPath(<<"root", "D">>)),
          TypePtr(FALSE, TypePtr(TRUE, PlainPath(<<"A">>))),
          TypeReference(FALSE,
                        GenericPath(<<"G">>, <<TypePtr(FALSE, PlainPath(<<"T">>))>>))}

\* a path with arguments on a segment that is not the last
NonFinalArgsType ==
    TypePath(<<PathSegment("root", NoArguments),
               PathSegment("G", AngleBracketed(<<PlainPath(<<"T">>)>>)),
               PathSegment("X", NoArguments)>>)

RawTypes ==
    PlainTypes \cup GenericTypes \cup IndirectTypes
    \cup {TypeTuple, NonFinalArgsType}

NoConvert == [ty |-> TypeTuple, ns |-> <<>>, result |-> [tag |-> "None", val |-> <<>>]]


-----------------------------------------------------------------------------
(* The calls the database receives *)

\* note_nested_type: a synthesized name with two replacements, and a
\* replacement that is itself renamed
NestedTypes ==
    {<<<<"A_B">>, <<"A", "B">>>>, <<<<"A_B">>, <<"X">>>>,
     <<<<"X">>, <<"A", "B">>>>, <<<<"X">>, <<"Y">>>>}

PodRequests == {<<"T">>}

\* the strings passed to add_to_allowlist
AllowlistItems == {<<"T">>, <<"n", "::", "T">>, <<"f">>}

\* the names asked for with is_on_allowlist
QueriedNames == {<<"T">>, <<"n", "T">>, <<"A", "B">>, <<"f">>, <<"n">>}

\* the types rendered
RenderedTypes ==
    {PlainPath(p) : p \in {<<"A_B">>, <<"root", "X">>, <<"root", "n", "T">>}}
    \cup {GenericPath(<<"G">>, args) :
              args \in {<<PlainPath(<<"A_B">>), PlainPath(<<"T">>)>>,
                        <<GenericPath(<<"G">>, <<PlainPath(<<"root", "X">>)>>)>>,
                        <<TypeReference(FALSE, PlainPath(<<"T">>))>>,
                        <<Lifetime, PlainPath(<<"T">>)>>,
                        <<>>,
                        <<TypePtr(TRUE, PlainPath(<<"T">>))>>}}
    \cup {TypeReference(FALSE, PlainPath(<<"A_B">>)),
          TypeReference(TRUE, GenericPath(<<"G">>, <<PlainPath(<<"X">>)>>)),
          TypePtr(TRUE, PlainPath(<<"T">>)),
          TypeTuple}

NoRender == [ty |-> TypeTuple, result |-> [tag |-> "None", val |-> <<>>]]

-----------------------------------------------------------------------------
(* The calls the tracker receives *)

TypeNames == {"A", "B"}

Scopes == {None} \cup {Some(t) : t \in TypeNames}

\* 2^64, one more than usize::MAX
TooBig == <<"1","8","4","4","6","7","4","4","0","7",
            "3","7","0","9","5","5","1","6","1","6">>

\* the identifiers looked up: a series j, j1, j2, ..., spellings with a
\* leading zero, suffixes outside the series, a second base name, an
\* all-numeric identifier and a suffix above usize::MAX
FoundNames ==
    {<<"j">>, <<"j", "0">>, <<"j", "1">>, <<"j", "0", "1">>, <<"j", "2">>,
     <<"j", "3">>, <<"j", "4">>, <<"j", "1", "0">>}
    \cup {<<"k">>}
    \cup {<<"1", "0">>, <<"j">> \o TooBig}

NoCall == [op |-> "none", type_name |-> None, found_name |-> <<>>,
           outcome |-> "ok", fn_name |-> <<>>, counter |-> 0,
           expected_next_suffix |-> 0, result |-> NoOverload]

\* OverloadTracker::new
OTNew ==
    /\ offset_by_name = EmptyMap
    /\ offset_by_type_and_name = EmptyMap
    /\ expected_next_by_name = EmptyMap
    /\ ot_aborted = FALSE
    /\ ot_ret = NoCall
    /\ ot_recognised = EmptyMap

\* TypeConverter::new
TCNew ==
    /\ types_found = {}
    /\ typedefs = EmptyMap
    /\ tc_aborted = FALSE
    /\ tc_ret = NoConvert
    /\ tc_pushed = {}

\* TypeDatabase::new
TDNew ==
    /\ nested_types = EmptyMap
    /\ pod_requests = {}
    /\ allowlist = {}
    /\ td_aborted = FALSE
    /\ td_ret = NoRender
    /\ td_noted = EmptyMap
    /\ td_added = {}

Init == OTNew /\ TCNew /\ TDNew

\* the effect of one call of next_offset on the state
Lookup(op, type_name, found_name) ==
    \E r \in {next_offset(OverloadTracker, type_name, found_name)} :
    LET key == <<type_name, r.fn_name>>
    IN  /\ \A p \in DOMAIN r.self.expected_next_by_name :
               r.self.expected_next_by_name[p] <= MaxCount
        /\ offset_by_name' = r.self.offset_by_name
        /\ offset_by_type_and_name' = r.self.offset_by_type_and_name
        /\ expected_next_by_name' = r.self.expected_next_by_name
        /\ ot_aborted' = (r.outcome = "panic")
        /\ ot_ret' = [op |-> op, type_name |-> type_name, found_name |-> found_name,
                      outcome |-> r.outcome, fn_name |-> r.fn_name,
                      counter |-> r.counter,
                      expected_next_suffix |-> r.expected_next_suffix,
                      result |-> r.result]
        /\ ot_recognised' =
               IF r.outcome = "ok" /\ r.counter = r.expected_next_suffix
               THEN MapPut(ot_recognised, key, MapGet(ot_recognised, key, 0) + 1)
               ELSE ot_recognised
        /\ UNCHANGED <<tc_vars, td_vars>>

get_function_real_name(found_name) ==
    /\ ~ot_aborted
    /\ Lookup("get_function_real_name", None, found_name)

get_method_real_name(type_name, found_name) ==
    /\ ~ot_aborted
    /\ Lookup("get_method_real_name", Some(type_name), found_name)

OTNext ==
    \/ \E found_name \in FoundNames : get_function_real_name(found_name)
    \/ \E type_name \in TypeNames, found_name \in FoundNames :
           get_method_real_name(type_name, found_name)

SpecOT == Init /\ [][OTNext]_vars

\* a variant of convert_boxed_type that remembers the name it qualified
convert_boxed_type_remembering(ty, ns) ==
    /\ ~tc_aborted
    /\ tc_ret = NoConvert
    /\ \E r \in {convert_type(TypeConverter, ty, ns)} :
           /\ tc_ret' = [ty |-> ty, ns |-> ns, result |-> r]
           /\ tc_aborted' = (r.tag = "Fatal")
           /\ types_found' =
                  IF r.tag = "Ok" /\ r.val.kind = "Path"
                  THEN types_found \cup {from_type_path(r.val)}
                  ELSE types_found
    /\ UNCHANGED <<typedefs, tc_pushed, ot_vars, td_vars>>

push(ty) ==
    /\ ~tc_aborted
    /\ types_found' = types_found \cup {ty}
    /\ tc_pushed' = tc_pushed \cup {ty}
    /\ UNCHANGED <<typedefs, tc_aborted, tc_ret, ot_vars, td_vars>>

insert_typedef(id, ty) ==
    /\ ~tc_aborted
    /\ tc_ret = NoConvert
    /\ typedefs' = MapPut(typedefs, id, analyze_typedef_target(ty))
    /\ UNCHANGED <<types_found, tc_aborted, tc_ret, tc_pushed, ot_vars, td_vars>>

convert_boxed_type(ty, ns) ==
    /\ ~tc_aborted
    /\ tc_ret = NoConvert
    /\ \E r \in {convert_type(TypeConverter, ty, ns)} :
           /\ tc_ret' = [ty |-> ty, ns |-> ns, result |-> r]
           /\ tc_aborted' = (r.tag = "Fatal")
    /\ UNCHANGED <<types_found, typedefs, tc_pushed, ot_vars, td_vars>>

\* the caller is done with the Result it got: it may hold it across calls
\* of push, and drops it before it declares a typedef or converts again
drop_result ==
    /\ ~tc_aborted
    /\ tc_ret # NoConvert
    /\ tc_ret' = NoConvert
    /\ UNCHANGED <<types_found, typedefs, tc_aborted, tc_pushed, ot_vars, td_vars>>

TCNext ==
    \/ \E ty \in PushedNames : push(ty)
    \/ \E decl \in TypedefDecls : insert_typedef(decl[1], decl[2])
    \/ \E ty \in RawTypes, ns \in Namespaces : convert_boxed_type(ty, ns)
    \/ drop_result

SpecTC == Init /\ [][TCNext]_vars

-----------------------------------------------------------------------------
(* The database's operations *)

\* a variant of note_nested_type that keeps the first replacement
note_nested_type_keeps_first(original, replacement) ==
    /\ ~td_aborted
    /\ nested_types' = MapOrInsert(nested_types, original, replacement)
    /\ td_noted' = MapPut(td_noted, original, replacement)
    /\ UNCHANGED <<pod_requests, allowlist, td_aborted, td_ret, td_added,
                   ot_vars, tc_vars>>

note_nested_type(original, replacement) ==
    /\ ~td_aborted
    /\ nested_types' = MapPut(nested_types, original, replacement)
    /\ td_noted' = MapPut(td_noted, original, replacement)
    /\ UNCHANGED <<pod_requests, allowlist, td_aborted, td_ret, td_added,
                   ot_vars, tc_vars>>

note_pod_request(tn) ==
    /\ ~td_aborted
    /\ pod_requests' = pod_requests \cup {tn}
    /\ UNCHANGED <<nested_types, allowlist, td_aborted, td_ret, td_noted,
                   td_added, ot_vars, tc_vars>>

\* a variant of add_to_allowlist that keeps the latest item only
add_to_allowlist_replacing(item) ==
    /\ ~td_aborted
    /\ allowlist' = {item}
    /\ td_added' = td_added \cup {item}
    /\ UNCHANGED <<nested_types, pod_requests, td_aborted, td_ret, td_noted,
                   ot_vars, tc_vars>>

add_to_allowlist(item) ==
    /\ ~td_aborted
    /\ allowlist' = allowlist \cup {item}
    /\ td_added' = td_added \cup {item}
    /\ UNCHANGED <<nested_types, pod_requests, td_aborted, td_ret, td_noted,
                   ot_vars, tc_vars>>

\* a call of type_to_cpp
render(ty) ==
    /\ ~td_aborted
    /\ \E r \in {type_to_cpp(TypeDatabase, ty)} :
           /\ td_ret' = [ty |-> ty, result |-> r]
           /\ td_aborted' = (r.tag = "Fatal")
    /\ UNCHANGED <<nested_types, pod_requests, allowlist, td_noted, td_added,
                   ot_vars, tc_vars>>

TDNext ==
    \/ \E nested \in NestedTypes : note_nested_type(nested[1], nested[2])
    \/ \E tn \in PodRequests : note_pod_request(tn)
    \/ \E item \in AllowlistItems : add_to_allowlist(item)
    \/ \E ty \in RenderedTypes : render(ty)

SpecTD == Init /\ [][TDNext]_vars

-----------------------------------------------------------------------------
(* Properties of the OverloadTracker, checked under SpecOT *)

\* the last call returned, and its counter matched the expected one
OTRecognised ==
    /\ ot_ret.op # "none"
    /\ ot_ret.outcome = "ok"
    /\ ot_ret.counter = ot_ret.expected_next_suffix

\* the bridge name of the k-th member (k = 0, 1, ...) of a zero-based series
SeriesName(prefix, k) == IF k = 0 THEN prefix ELSE prefix \o ToDecimal(k)

\* C1: the k-th lookup of a prefix that is recognised in a scope returns
\* the bridge name prefix (k = 0) or prefix followed by decimal k, however
\* many lookups of that prefix other scopes consumed in between.
C1_ZeroBasedSeriesPerScope ==
    OTRecognised =>
        ot_ret.result.rust_method_name =
            SeriesName(ot_ret.fn_name,
                       ot_recognised[<<ot_ret.type_name, ot_ret.fn_name>>] - 1)

\* C2: two lookups made in the same scope with different raw identifiers
\* never return the same bridge name; stated of the lookup that returned
\* last and any lookup that may follow it in that scope.
C2_DistinctBridgeNamesPerScope ==
    (ot_ret.op # "none" /\ ot_ret.outcome = "ok") =>
        \A other \in FoundNames \ {ot_ret.found_name} :
            LET r == next_offset(OverloadTracker, ot_ret.type_name, other)
            IN  r.outcome = "ok" =>
                    r.result.rust_method_name # ot_ret.result.rust_method_name

\* the raw identifier without its maximal run of trailing ASCII digits
BaseOf(raw) ==
    LET cut == CHOOSE i \in 0..Len(raw) :
                   /\ \A j \in (i + 1)..Len(raw) : raw[j] \in AsciiDigits
                   /\ i > 0 => raw[i] \notin AsciiDigits
    IN  SubSeq(raw, 1, cut)

\* the value of the trailing digits of the raw identifier (0 if none)
CounterOf(raw) == DecValue(SubSeq(raw, Len(BaseOf(raw)) + 1, Len(raw)))

\* the base names of the identifiers looked up
BaseNames == {BaseOf(n) : n \in FoundNames}

\* what a scope and an identifier get from a tracker, with the tracker it
\* leaves read with absent entries of expected_next_by_name as 0
OTObserve(self, type_name, found_name) ==
    LET r == next_offset(self, type_name, found_name)
    IN  <<r.outcome, r.result, r.self.offset_by_name,
          r.self.offset_by_type_and_name,
          [p \in BaseNames |->
               MapGet(r.self.expected_next_by_name, p, 0)]>>

\* the step is a call that returned with counter # expected_next[prefix]
OTMismatchStep ==
    /\ ot_ret'.outcome = "ok"
    /\ CounterOf(ot_ret'.found_name) #
           MapGet(expected_next_by_name, BaseOf(ot_ret'.found_name), 0)

\* C3: a lookup whose counter differs from expected_next[prefix] (absent
\* = 0) returns the raw identifier as both names and changes no value of
\* expected_next, of the free-function offsets or of the per-type offsets,
\* so that every later lookup returns what it would have returned.
C3_MismatchChangesNothing ==
    [][OTMismatchStep =>
         /\ ot_ret'.result =
                MethodOverload(ot_ret'.found_name, ot_ret'.found_name)
         /\ \A p \in DOMAIN expected_next_by_name \cup DOMAIN expected_next_by_name' :
                MapGet(expected_next_by_name', p, 0) =
                    MapGet(expected_next_by_name, p, 0)
         /\ offset_by_name' = offset_by_name
         /\ offset_by_type_and_name' = offset_by_type_and_name
         /\ \/ OverloadTracker' = OverloadTracker
            \/ \A s \in Scopes, n \in FoundNames :
                   OTObserve(OverloadTracker', s, n) = OTObserve(OverloadTracker, s, n)
      ]_vars

\* a mismatching lookup (j10 when j3 is expected) came back unchanged
C3_Witness ==
    /\ ot_ret.found_name = <<"j", "1", "0">>
    /\ ot_ret.expected_next_suffix = 3
    /\ ot_ret.result = MethodOverload(<<"j", "1", "0">>, <<"j", "1", "0">>)
    /\ expected_next_by_name[<<"j">>] = 3

\* the step is a call that returned with counter = expected_next[prefix]
OTMatchStep ==
    /\ ot_ret'.outcome = "ok"
    /\ CounterOf(ot_ret'.found_name) =
           MapGet(expected_next_by_name, BaseOf(ot_ret'.found_name), 0)

\* C4: a lookup whose counter equals expected_next[prefix] returns
\* native_name = prefix and bridge_name = prefix if counter - offset = 0,
\* else prefix followed by the decimal counter - offset, offset being the
\* baseline recorded for the prefix in the selected scope (the counter
\* itself if the prefix is new in that scope).
C4_RecognisedNames ==
    [][OTMatchStep =>
         LET prefix == BaseOf(ot_ret'.found_name)
             counter == CounterOf(ot_ret'.found_name)
             scope == Registry(OverloadTracker, ot_ret'.type_name)
             offset == IF prefix \in DOMAIN scope THEN scope[prefix] ELSE counter
         IN  /\ counter >= offset
             /\ ot_ret'.result.cpp_method_name = prefix
             /\ ot_ret'.result.rust_method_name =
                    IF counter - offset = 0 THEN prefix
                    ELSE prefix \o ToDecimal(counter - offset)
      ]_vars

\* B's series starts at j1 and its second member j2 is exposed as j1
C4_Witness ==
    /\ ot_ret.type_name = Some("B")
    /\ ot_ret.found_name = <<"j", "2">>
    /\ ot_ret.result = MethodOverload(<<"j">>, <<"j", "1">>)
    /\ offset_by_type_and_name["B"][<<"j">>] = 1

\* C5: a lookup aborts only when the raw identifier consists entirely of
\* digits; every identifier with a non-digit character gets a
\* MethodOverload, whatever the size of its numeric suffix.
C5_OnlyAllDigitNamesAbort ==
    (ot_ret.op # "none" /\ ot_ret.outcome = "panic") =>
        \A i \in 1..Len(ot_ret.found_name) : ot_ret.found_name[i] \in AsciiDigits

-----------------------------------------------------------------------------
(* Properties of the TypeConverter, checked under SpecTC *)

\* the step is a call of convert: tc_ret' holds its arguments and result,
\* the unprimed variables the converter it was called on
TCConvertStep == tc_ret = NoConvert /\ tc_ret' # NoConvert

IsAbsolute(typ) == typ.segments[1].ident = "root"

LastArguments(typ) == typ.segments[Len(typ.segments)].arguments

\* a named type with path arguments, if any, on its last segment only
WellFormedPath(ty) ==
    /\ ty.kind = "Path"
    /\ \A i \in 1..(Len(ty.segments) - 1) :
           ArgumentsIsEmpty(ty.segments[i].arguments)

\* the canonical name a usage in namespace ns stands for
UsageName(typ, ns) ==
    IF IsAbsolute(typ) THEN Tail(Idents(typ))
    ELSE IF Idents(typ) \in tc_pushed \/ is_known_type(Idents(typ))
    THEN Idents(typ)
    ELSE ns \o Idents(typ)

\* where the SimpleAlias typedefs lead from tn: a name that is no typedef
\* ("plain"), a Complex typedef ("complex"), or nowhere ("cycle")
RECURSIVE ChainEnd(_, _)
ChainEnd(tn, fuel) ==
    IF tn \notin DOMAIN typedefs THEN [name |-> tn, kind |-> "plain"]
    ELSE IF typedefs[tn] = Complex THEN [name |-> tn, kind |-> "complex"]
    ELSE IF fuel = 0 THEN [name |-> tn, kind |-> "cycle"]
    ELSE ChainEnd(typedefs[tn].tn, fuel - 1)

AliasChainEnd(tn) == ChainEnd(tn, Cardinality(DOMAIN typedefs))

\* the top-level conversion of each generic argument of the last segment
ArgumentResults(typ, ns) ==
    [i \in 1..Len(LastArguments(typ).args) |->
        IF LastArguments(typ).args[i].kind = "Lifetime"
        THEN Ok(LastArguments(typ).args[i])
        ELSE convert_type(TypeConverter, LastArguments(typ).args[i], ns)]

\* the result of the first argument whose conversion fails, in a sequence
\* of at most one element
FirstFailure(results) ==
    LET failed == {i \in 1..Len(results) : results[i].tag # "Ok"}
    IN  IF failed = {} THEN <<>>
        ELSE <<results[CHOOSE i \in failed : \A j \in failed : i <= j]>>

\* C6: for a named type with generic arguments on its last segment,
\* absolute or not, every generic type argument of the result is the
\* conversion of the corresponding argument of the input, and an argument
\* that convert rejects makes the whole conversion fail.
C6_GenericArgumentsConverted ==
    [][(/\ TCConvertStep
        /\ WellFormedPath(tc_ret'.ty)
        /\ ~ArgumentsIsEmpty(LastArguments(tc_ret'.ty))) =>
           LET results == ArgumentResults(tc_ret'.ty, tc_ret'.ns)
           IN  IF FirstFailure(results) # <<>>
               THEN tc_ret'.result.tag # "Ok"
               ELSE tc_ret'.result.tag = "Ok" =>
                        /\ tc_ret'.result.val.kind = "Path"
                        /\ LastArguments(tc_ret'.result.val).args =
                               [i \in 1..Len(results) |-> results[i].val]
      ]_vars

\* built only from path, reference and raw pointer nodes
RECURSIVE OnlyPathRefPtr(_)
OnlyPathRefPtr(ty) ==
    IF ty.kind = "Path"
    THEN \A i \in 1..Len(ty.segments) :
             \A j \in 1..Len(ty.segments[i].arguments.args) :
                 \/ ty.segments[i].arguments.args[j].kind = "Lifetime"
                 \/ OnlyPathRefPtr(ty.segments[i].arguments.args[j])
    ELSE IF ty.kind \in {"Reference", "Ptr"}
    THEN OnlyPathRefPtr(ty.elem)
    ELSE FALSE

\* C7: when convert succeeds on a type built only from path, reference and
\* raw pointer nodes, type_to_cpp renders the result without reaching its
\* unsupported-shape panic.
C7_ConvertedTypesRender ==
    [][(/\ TCConvertStep
        /\ OnlyPathRefPtr(tc_ret'.ty)
        /\ tc_ret'.result.tag = "Ok") =>
           ~type_to_cpp_panics(tc_ret'.result.val)
      ]_vars

\* the step converts a named type whose name is a Complex typedef or has
\* SimpleAlias typedefs leading to one
TCComplexUsageStep ==
    /\ TCConvertStep
    /\ WellFormedPath(tc_ret'.ty)
    /\ AliasChainEnd(UsageName(tc_ret'.ty, tc_ret'.ns)).kind = "complex"

\* C8: converting a named type whose name is a Complex typedef, or whose
\* SimpleAlias chain reaches one, returns ComplexTypedefTarget; for a
\* direct usage of the Complex typedef D the error carries the name D.
C8_ComplexTypedefRejected ==
    [][TCComplexUsageStep =>
           /\ tc_ret'.result.tag = "Err"
           /\ typedefs[UsageName(tc_ret'.ty, tc_ret'.ns)] = Complex =>
                  tc_ret'.result.val =
                      to_cpp_name(UsageName(tc_ret'.ty, tc_ret'.ns))
      ]_vars

\* C8 as amended: the same, except that the generic arguments of an
\* absolute path are converted first, and the first of them that fails
\* decides the outcome; otherwise the error names the Complex typedef
\* reached (D itself for a direct usage of D).
C8_ComplexTypedefRejectedAfterArguments ==
    [][TCComplexUsageStep =>
           LET failure == IF IsAbsolute(tc_ret'.ty)
                          THEN FirstFailure(ArgumentResults(tc_ret'.ty, tc_ret'.ns))
                          ELSE <<>>
           IN  IF failure # <<>>
               THEN tc_ret'.result = failure[1]
               ELSE tc_ret'.result =
                        ComplexTypedefTarget(to_cpp_name(
                            AliasChainEnd(UsageName(tc_ret'.ty, tc_ret'.ns)).name))
      ]_vars

\* a usage of A, with A -> B -> D and D Complex, was rejected naming D
C8_Witness ==
    /\ tc_ret.ty = PlainPath(<<"root", "A">>)
    /\ tc_ret.result = ComplexTypedefTarget(<<"D">>)
    /\ typedefs[<<"A">>] = SimpleAlias(<<"B">>)
    /\ typedefs[<<"B">>] = SimpleAlias(<<"D">>)
    /\ typedefs[<<"D">>] = Complex

\* the path that stands for the name c once it is substituted
SubstitutedIdents(c) ==
    IF is_known_type(c) THEN KnownTypes[c] ELSE <<"root">> \o c

\* C9: when SimpleAlias typedefs lead from the name of a usage, through
\* any number of aliases, to a name C that is no typedef, the conversion
\* substitutes C and never an alias on the way.
C9_AliasChainResolvesToLastTarget ==
    [][(/\ TCConvertStep
        /\ WellFormedPath(tc_ret'.ty)
        /\ UsageName(tc_ret'.ty, tc_ret'.ns) \in DOMAIN typedefs
        /\ AliasChainEnd(UsageName(tc_ret'.ty, tc_ret'.ns)).kind = "plain") =>
           LET c == AliasChainEnd(UsageName(tc_ret'.ty, tc_ret'.ns)).name
               failure == IF IsAbsolute(tc_ret'.ty)
                          THEN FirstFailure(ArgumentResults(tc_ret'.ty, tc_ret'.ns))
                          ELSE <<>>
           IN  /\ failure = <<>> => tc_ret'.result.tag = "Ok"
               /\ tc_ret'.result.tag = "Ok" =>
                      IF c = StrMarker
                      THEN tc_ret'.result.val =
                               TypeReference(FALSE, PlainPath(<<"str">>))
                      ELSE /\ tc_ret'.result.val.kind = "Path"
                           /\ Idents(tc_ret'.result.val) = SubstitutedIdents(c)
      ]_vars

\* a bare usage of A, with A -> B -> C -> T, became root::T
C9_Witness ==
    /\ tc_ret.ty = PlainPath(<<"A">>)
    /\ tc_ret.ns = <<>>
    /\ tc_ret.result = Ok(PlainPath(<<"root", "T">>))
    /\ typedefs[<<"A">>] = SimpleAlias(<<"B">>)
    /\ typedefs[<<"B">>] = SimpleAlias(<<"C">>)
    /\ typedefs[<<"C">>] = SimpleAlias(<<"T">>)

\* the step converts a bare name that is no built-in or standard type and
\* has no typedef, alone or in the namespace
TCBareNameStep ==
    /\ TCConvertStep
    /\ tc_ret'.ty.kind = "Path"
    /\ Len(tc_ret'.ty.segments) = 1
    /\ ArgumentsIsEmpty(tc_ret'.ty.segments[1].arguments)
    /\ ~IsAbsolute(tc_ret'.ty)
    /\ \A name \in {Idents(tc_ret'.ty), tc_ret'.ns \o Idents(tc_ret'.ty)} :
           ~is_known_type(name) /\ name \notin DOMAIN typedefs

\* C10: a bare name T that is no built-in and has no typedef converts to
\* root + the namespace + T when no push(T) came before the call, and to T
\* itself in every call after push(T); a later push leaves a result
\* already returned as it is.
C10_QualificationFollowsPushOrder ==
    [][/\ TCBareNameStep =>
              tc_ret'.result =
                  Ok(IF Idents(tc_ret'.ty) \in tc_pushed
                     THEN PlainPath(Idents(tc_ret'.ty))
                     ELSE PlainPath(<<"root">> \o tc_ret'.ns \o Idents(tc_ret'.ty)))
       /\ tc_pushed' # tc_pushed => tc_ret' = tc_ret
      ]_vars

\* T was qualified in namespace n, and pushed after that
C10_Witness ==
    /\ tc_ret.ty = PlainPath(<<"T">>)
    /\ tc_ret.ns = <<"n">>
    /\ tc_ret.result = Ok(PlainPath(<<"root", "n", "T">>))
    /\ <<"T">> \in tc_pushed

\* C11: converting a path that starts with root never prepends the
\* namespace, whatever was pushed; when its name has no typedef and is no
\* built-in or standard type, the segment identifiers of the result are
\* those of the input.
C11_AbsolutePathNotRequalified ==
    [][(/\ TCConvertStep
        /\ tc_ret'.ty.kind = "Path"
        /\ IsAbsolute(tc_ret'.ty)
        /\ tc_ret'.result.tag = "Ok"
        /\ tc_ret'.result.val.kind = "Path") =>
           /\ tc_ret'.ns # <<>> =>
                  Idents(tc_ret'.result.val) \notin
                      {<<"root">> \o tc_ret'.ns \o Idents(tc_ret'.ty),
                       <<"root">> \o tc_ret'.ns \o Tail(Idents(tc_ret'.ty))}
           /\ (/\ Tail(Idents(tc_ret'.ty)) \notin DOMAIN typedefs
               /\ ~is_known_type(Tail(Idents(tc_ret'.ty)))) =>
                  Idents(tc_ret'.result.val) = Idents(tc_ret'.ty)
      ]_vars

\* root::T converted in namespace n, T not pushed, stayed root::T
C11_Witness ==
    /\ tc_ret.ty = PlainPath(<<"root", "T">>)
    /\ tc_ret.ns = <<"n">>
    /\ tc_ret.result = Ok(PlainPath(<<"root", "T">>))
    /\ <<"T">> \notin tc_pushed

\* C12: a raw pointer or a reference to T converts to a reference of the
\* same mutability to the converted T, and when the conversion of T fails
\* the failure is the result.
C12_PointerBecomesReference ==
    [][(/\ TCConvertStep
        /\ tc_ret'.ty.kind \in {"Ptr", "Reference"}) =>
           LET elem == convert_type(TypeConverter, tc_ret'.ty.elem, tc_ret'.ns)
           IN  IF elem.tag = "Ok"
               THEN /\ tc_ret'.result.tag = "Ok"
                    /\ tc_ret'.result.val.kind = "Reference"
                    /\ tc_ret'.result.val.mutability = tc_ret'.ty.mutability
                    /\ tc_ret'.result.val.elem = elem.val
               ELSE tc_ret'.result = elem
      ]_vars

\* *mut T converted in namespace n became &mut root::n::T
C12_Witness ==
    /\ tc_ret.ty = TypePtr(TRUE, PlainPath(<<"T">>))
    /\ tc_ret.ns = <<"n">>
    /\ tc_ret.result =
           Ok(TypeReference(TRUE, PlainPath(<<"root", "n", "T">>)))

-----------------------------------------------------------------------------
(* Properties of the TypeDatabase, checked under SpecTD *)

\* the answers of the two allowlist queries
AllowlistAnswers(self) ==
    <<allowlist_is_empty(self),
      [name \in QueriedNames |-> is_on_allowlist(self, name)]>>

\* C13: allowlist_is_empty() is true exactly when add_to_allowlist was
\* never called, is_on_allowlist(name) is true exactly when the text of
\* name is an item passed to an earlier add_to_allowlist, and a step that
\* is no add_to_allowlist changes neither answer.
C13_AllowlistAnswersFollowAdds ==
    /\ [](/\ allowlist_is_empty(TypeDatabase) <=> (td_added = {})
          /\ \A name \in QueriedNames :
                 is_on_allowlist(TypeDatabase, name) <=>
                     (\E item \in td_added : item = to_cpp_name(name)))
    /\ [][td_added' = td_added =>
              AllowlistAnswers(TypeDatabase') = AllowlistAnswers(TypeDatabase)
         ]_vars

\* n::T was added and T was not, after a nested type and a POD request
C13_Witness ==
    /\ td_added = {<<"n", "::", "T">>}
    /\ ~allowlist_is_empty(TypeDatabase)
    /\ is_on_allowlist(TypeDatabase, <<"n", "T">>)
    /\ ~is_on_allowlist(TypeDatabase, <<"T">>)
    /\ nested_types # EmptyMap
    /\ pod_requests # {}

\* the step is a call of type_to_cpp that returned
TDRenderStep == td_ret' # td_ret /\ td_ret'.result.tag = "Ok"

\* the name of a named type, or the latest replacement noted for it
NotedName(typ) ==
    to_cpp_name(IF from_type_path(typ) \in DOMAIN td_noted
                THEN td_noted[from_type_path(typ)]
                ELSE from_type_path(typ))

\* the texts joined with ", "
RECURSIVE JoinedWithComma(_)
JoinedWithComma(texts) ==
    IF texts = <<>> THEN <<>>
    ELSE IF Len(texts) = 1 THEN texts[1]
    ELSE texts[1] \o <<", ">> \o JoinedWithComma(Tail(texts))

\* the rendering of a named or reference type; a named type gets its
\* angle brackets when it has at least one generic argument, or
\* (empty_list) when it has an argument list at all; an argument that is
\* no type contributes the empty text
RECURSIVE Rendering(_, _)
Rendering(ty, empty_list) ==
    IF ty.kind = "Lifetime" THEN <<>>
    ELSE IF ty.kind = "Reference"
    THEN (IF ty.mutability THEN <<>> ELSE <<"const ">>)
         \o Rendering(ty.elem, empty_list) \o <<"&">>
    ELSE LET arguments == LastArguments(ty)
         IN  IF \/ arguments.args # <<>>
                \/ (empty_list /\ arguments.kind = "AngleBracketed")
             THEN NotedName(ty) \o <<"<">>
                  \o JoinedWithComma([i \in 1..Len(arguments.args) |->
                                         Rendering(arguments.args[i], empty_list)])
                  \o <<">">>
             ELSE NotedName(ty)

\* every generic argument of ty, at every level, is a type
RECURSIVE OnlyTypeArguments(_)
OnlyTypeArguments(ty) ==
    IF ty.kind = "Lifetime" THEN FALSE
    ELSE IF ty.kind = "Reference" THEN OnlyTypeArguments(ty.elem)
    ELSE IF ty.kind = "Path"
    THEN \A i \in 1..Len(LastArguments(ty).args) :
             OnlyTypeArguments(LastArguments(ty).args[i])
    ELSE TRUE

\* C14: a named type renders as its name, or the replacement noted last
\* for it, followed when generic arguments are present by '<', the
\* rendered arguments joined with ", " and '>'; a reference renders as
\* 'const ' + T + '&' or, mutable, T + '&'.
C14_RenderedText ==
    [][(TDRenderStep /\ OnlyTypeArguments(td_ret'.ty)) =>
           td_ret'.result.val = Rendering(td_ret'.ty, FALSE)
      ]_vars

\* C14 as amended: the same, with the brackets following whenever the
\* last segment has an angle-bracketed argument list, empty or not, and a
\* generic argument that is no type rendered as the empty text.
C14_RenderedTextOfArgumentLists ==
    [][TDRenderStep =>
           td_ret'.result.val = Rendering(td_ret'.ty, TRUE)
      ]_vars

\* G<A_B, T> was rendered as G<A::B, T> after A_B was renamed twice
C14_Witness ==
    /\ td_ret.ty = GenericPath(<<"G">>, <<PlainPath(<<"A_B">>), PlainPath(<<"T">>)>>)
    /\ td_ret.result = Ok(<<"G", "<", "A", "::", "B", ", ", "T", ">">>)
    /\ td_noted[<<"A_B">>] = <<"A", "B">>
    /\ <<"X">> \in DOMAIN td_noted

-----------------------------------------------------------------------------
(* Further properties of the OverloadTracker, checked under SpecOT *)

\* how many lookups of prefix were recognised so far, in all scopes
RECURSIVE RecognisedIn(_, _)
RecognisedIn(scopes, prefix) ==
    IF scopes = {} THEN 0
    ELSE LET s == CHOOSE x \in scopes : TRUE
         IN  MapGet(ot_recognised, <<s, prefix>>, 0)
             + RecognisedIn(scopes \ {s}, prefix)

\* C15: expected_next[prefix] (absent = 0) is the number of lookups of the
\* prefix recognised so far in all scopes together; a recognised lookup
\* advances it by exactly 1, a mismatch leaves it, and no step decreases
\* the counter of any prefix.
C15_ExpectedNextCountsAllScopes ==
    /\ [](\A p \in BaseNames :
              MapGet(expected_next_by_name, p, 0) = RecognisedIn(Scopes, p))
    /\ [][/\ OTMatchStep =>
                 MapGet(expected_next_by_name', BaseOf(ot_ret'.found_name), 0) =
                     MapGet(expected_next_by_name, BaseOf(ot_ret'.found_name), 0) + 1
          /\ OTMismatchStep =>
                 MapGet(expected_next_by_name', BaseOf(ot_ret'.found_name), 0) =
                     MapGet(expected_next_by_name, BaseOf(ot_ret'.found_name), 0)
          /\ \A p \in BaseNames :
                 MapGet(expected_next_by_name', p, 0) >=
                     MapGet(expected_next_by_name, p, 0)
         ]_vars

\* three lookups of j were recognised, one as a free function and two in A
C15_Witness ==
    /\ MapGet(ot_recognised, <<None, <<"j">>>>, 0) = 1
    /\ MapGet(ot_recognised, <<Some("A"), <<"j">>>>, 0) = 2
    /\ MapGet(expected_next_by_name, <<"j">>, 0) = 3

\* C16: the baseline offset of a scope and prefix is recorded by the first
\* lookup of the prefix recognised in that scope, as the counter of that
\* lookup, and no later step changes it; a lookup in one scope records
\* nothing in another.
C16_BaselineFixedAtFirstLookup ==
    [][\A s \in Scopes, p \in BaseNames :
           LET old == Registry(OverloadTracker, s)
               new == Registry(OverloadTracker', s)
               first == /\ OTMatchStep
                        /\ ot_ret'.type_name = s
                        /\ BaseOf(ot_ret'.found_name) = p
           IN  IF p \in DOMAIN old
               THEN p \in DOMAIN new /\ new[p] = old[p]
               ELSE IF first
               THEN p \in DOMAIN new /\ new[p] = CounterOf(ot_ret'.found_name)
               ELSE p \notin DOMAIN new
      ]_vars

\* the three scopes have the baselines 0, 1 and 2 for j
C16_Witness ==
    /\ MapGet(offset_by_name, <<"j">>, -1) = 0
    /\ MapGet(Registry(OverloadTracker, Some("A")), <<"j">>, -1) = 1
    /\ MapGet(Registry(OverloadTracker, Some("B")), <<"j">>, -1) = 2

\* C19: every baseline offset recorded for a scope and prefix is less than
\* expected_next[prefix], so that counter - offset of a recognised lookup
\* does not underflow.
C19_OffsetBelowExpectedNext ==
    \A s \in Scopes :
        \A p \in DOMAIN Registry(OverloadTracker, s) :
            Registry(OverloadTracker, s)[p] <
                MapGet(expected_next_by_name, p, 0)

\* the free functions start at j2, after two lookups of j in A
C19_Witness ==
    /\ MapGet(offset_by_name, <<"j">>, -1) = 2
    /\ MapGet(expected_next_by_name, <<"j">>, 0) = 3
    /\ ot_ret.result = MethodOverload(<<"j">>, <<"j">>)
    /\ ot_ret.found_name = <<"j", "2">>

-----------------------------------------------------------------------------
(* Further properties of the TypeConverter, checked under SpecTC *)

\* C17: a convert call that returns changes neither types_found nor the
\* typedefs, and the same call made again right after it returns the same
\* resolved type, or the same ComplexTypedefTarget error.
C17_ConvertIsReadOnly ==
    [][(TCConvertStep /\ tc_ret'.result.tag \in {"Ok", "Err"}) =>
           /\ types_found' = types_found
           /\ typedefs' = typedefs
           /\ convert_type(TypeConverter', tc_ret'.ty, tc_ret'.ns) = tc_ret'.result
      ]_vars

\* a usage of the Complex typedef D was rejected, the table as it was
C17_Witness ==
    /\ tc_ret.ty = PlainPath(<<"root", "D">>)
    /\ tc_ret.result = ComplexTypedefTarget(<<"D">>)
    /\ convert_type(TypeConverter, tc_ret.ty, tc_ret.ns) = tc_ret.result
    /\ types_found # {}

\* C18: every convert call returns, with a resolved type or with
\* ComplexTypedefTarget, also when SimpleAlias typedefs form a cycle: it
\* never recurses until the stack overflows.
C18_ConvertTerminates ==
    tc_ret.result # Fatal("stack overflow")

====
